---- MODULE Spec2Model ----
(***************************************************************************)
(* Traffic-aware reverse-proxy load balancer (cmd/lb/balancer.go).         *)
(*                                                                         *)
(* State: the traffic ledger (map server -> queue of sizeTimestamp), the   *)
(* mutex mu, the wall clock, one position per task: request handlers, the  *)
(* reduceTraffic sweeper, one health monitor per pooled server.            *)
(*                                                                         *)
(* Time is counted in half seconds, so that a sample can be recorded       *)
(* between two ticks of the sweeper's one-second ticker.                   *)
(* Timing assumption: the in-memory steps (taking the lock, the scan, the   *)
(* append, the sweep pass) complete before the clock reaches the next half *)
(* second; a backend call, a health probe and the gap between two requests *)
(* may last any number of half seconds.                                    *)
(***************************************************************************)
EXTENDS Integers, Sequences, FiniteSets, TLC

\* ------------------------------------------------------------------ bounds
MaxTime == 13
MaxRequests == 2
MaxProbes == 1
MaxHealthTime == 1
MaxIdle == 6
MaxTimedRequests == 1

\* ------------------------------------------------------- program constants
\* time.Second in clock units (half seconds)
Second == 2
\* reduceTraffic: cutoff := time.Now().Add(-5 * time.Second)
Window == 5 * Second
\* reduceTraffic: time.NewTicker(1 * time.Second)
SweepInterval == 1 * Second
\* health monitor: time.Tick(10 * time.Second)
HealthInterval == 10 * Second
\* minTraffic := int(^uint(0) >> 1) on a 32-bit int
MaxInt == 2147483647
\* integration test: numRequests := 100
NumRequests == 100
\* integration test: tolerance := float64(avgLoad) * 0.1, as a percentage
TolerancePct == 10

\* flag.Int("timeout-sec", 3, ...): the default of the option
DefaultTimeoutSec == 3

StatusOK == 200
StatusInternalServerError == 500
StatusServiceUnavailable == 503

\* var serversPool = []string{...}
DefaultPool == {"server1:8080", "server2:8080", "server3:8080"}
\* the zero value of minTrafficServer
NoServer == ""

\* ------------------------------------------------------------ environment
\* handler goroutines that may run at the same time
Handlers == {1, 2}
\* outcome of http.DefaultClient.Do followed by io.ReadAll in forward
CallOutcomes ==
  {[kind |-> "err", code |-> 0, size |-> 0],
   [kind |-> "readfail", code |-> 200, size |-> 0],
   [kind |-> "ok", code |-> 200, size |-> 1],
   [kind |-> "ok", code |-> 404, size |-> 2]}
\* outcome of http.DefaultClient.Do in health: transport error or a status
ProbeOutcomes == {0, 200, 204, 500}
NoResp == [kind |-> "none", code |-> 0, size |-> 0]
\* the values the -timeout-sec option may be given on the command line
TimeoutArgs == {1, DefaultTimeoutSec}
\* no context deadline: the task has no outbound call in progress
NoDeadline == -1

\* task identities, for the owner of mu
NoOne == <<>>
HandlerTask(h) == <<"handler", h>>
SweeperTask == <<"sweeper", 0>>
MonitorTask(s) == <<"monitor", s>>

VARIABLES
  serversPool,      \* the configured pool (fixed after Init)
  timeoutSec,       \* *timeoutSec after flag.Parse (fixed after Init)
  timeout,          \* the package variable timeout, in half seconds
  traffic,          \* map server -> queue of [size, timestamp]
  mu,               \* owner of the mutex, NoOne when unlocked
  now,              \* time.Now(), in half seconds since process start
  hpc,              \* position of each request handler
  minTrafficServer, \* handler local
  deadline,         \* handler local: the deadline of forward's ctx
  seen,             \* handler local: the serverTraffic sums of the last scan
  resp,             \* handler local: outcome of the backend call
  queue,            \* handler local: traffic[dst] as read by append
  status,           \* status lines written to the caller, per handler
  fwdErr,           \* what forward returned: "none", "nil", "err"
  spc,              \* position of the sweeper
  mpc,              \* position of each health monitor
  probe,            \* monitor local: outcome of the probe's http call
  pdeadline,        \* monitor local: the deadline of health's ctx
  healthy,          \* last result of health(server)
  load,             \* last load logged by the monitor
  nreq,             \* requests accepted so far
  nprobe,           \* health cycles started so far
  recorded,         \* history: number and bytes of the samples appended, per server
  swept,            \* history: number and bytes of the samples sweep passes removed
  served,           \* history: bytes relayed to callers, per server
  calls,            \* history: outbound backend calls of the current request
  scans,            \* history: scans of the ledger for the current request
  appended,         \* history: samples appended by the current request
  before,           \* history: loads when forward was entered
  quiet             \* history: no other forward and no sweep pass since entry

vars == <<serversPool, timeoutSec, timeout, traffic, mu, now, hpc, minTrafficServer,
          deadline, seen, resp, queue, status, fwdErr, spc, mpc, probe, pdeadline,
          healthy, load, nreq, nprobe, recorded, swept, served, calls, scans, appended,
          before, quiet>>

\* what startup fixes for the life of the process
config == <<serversPool, timeoutSec, timeout>>
hvars == <<hpc, minTrafficServer, deadline, seen, resp, queue, status, fwdErr, calls, scans,
           appended, before, quiet>>
mvars == <<mpc, probe, pdeadline, healthy, load, nprobe>>
gvars == <<recorded, swept, served>>

\* ---------------------------------------------------------------- helpers
RECURSIVE SumSizes(_)
\* for _, st := range q { total += st.size }
SumSizes(q) == IF q = <<>> THEN 0 ELSE Head(q).size + SumSizes(Tail(q))

\* traffic[s] of a Go map: the zero value (nil slice) for a missing key
QueueOf(tr, s) == IF s \in DOMAIN tr THEN tr[s] ELSE <<>>

\* a tally of samples: how many, and their summed size
NoSamples == [n |-> 0, bytes |-> 0]
TallyOf(m, s) == IF s \in DOMAIN m THEN m[s] ELSE NoSamples

\* a counter map read at a key that may be missing
CountOf(m, s) == IF s \in DOMAIN m THEN m[s] ELSE 0

LoadIn(tr, s) == SumSizes(QueueOf(tr, s))

Loads(tr) == [s \in DOMAIN tr |-> SumSizes(tr[s])]

\* the orders in which `for server := range traffic` may visit the keys
Orders(S) ==
  {o \in [1..Cardinality(S) -> S] : \A i, j \in 1..Cardinality(S) : o[i] = o[j] => i = j}

RECURSIVE MinScanMost(_, _, _, _)
\* the scan with the comparison turned round: the most loaded server wins
MinScanMost(order, tr, minTraffic, minServer) ==
  IF order = <<>> THEN minServer
  ELSE LET server == Head(order)
           serverTraffic == SumSizes(tr[server])
       IN IF minServer = NoServer \/ serverTraffic > minTraffic
            THEN MinScanMost(Tail(order), tr, serverTraffic, server)
            ELSE MinScanMost(Tail(order), tr, minTraffic, minServer)

RECURSIVE MinScanLast(_, _, _, _)
\* the scan with `minTraffic = serverTraffic` left out: every server beats the
\* initial maximum, so the last one visited wins
MinScanLast(order, tr, minTraffic, minServer) ==
  IF order = <<>> THEN minServer
  ELSE LET server == Head(order)
           serverTraffic == SumSizes(tr[server])
       IN IF serverTraffic < minTraffic
            THEN MinScanLast(Tail(order), tr, minTraffic, server)
            ELSE MinScanLast(Tail(order), tr, minTraffic, minServer)

RECURSIVE MinScanHealthy(_, _, _, _)
\* the scan with admission control: a server last reported unhealthy is skipped
MinScanHealthy(order, tr, minTraffic, minServer) ==
  IF order = <<>> THEN minServer
  ELSE LET server == Head(order)
           serverTraffic == SumSizes(tr[server])
       IN IF healthy[server] /\ serverTraffic < minTraffic
            THEN MinScanHealthy(Tail(order), tr, serverTraffic, server)
            ELSE MinScanHealthy(Tail(order), tr, minTraffic, minServer)

RECURSIVE MinScanRecent(_, _, _, _)
\* the scan with read-time filtering, as in the handler the unit test builds:
\* only the samples at most as old as the window count
MinScanRecent(order, tr, minTraffic, minServer) ==
  IF order = <<>> THEN minServer
  ELSE LET server == Head(order)
           serverTraffic ==
             SumSizes(SelectSeq(tr[server], LAMBDA st : now - st.timestamp <= Window))
       IN IF serverTraffic < minTraffic
            THEN MinScanRecent(Tail(order), tr, serverTraffic, server)
            ELSE MinScanRecent(Tail(order), tr, minTraffic, minServer)

RECURSIVE MinScanFirst(_, _, _, _)
\* the scan compared against the initial maximum only once: the first server
\* visited wins
MinScanFirst(order, tr, minTraffic, minServer) ==
  IF order = <<>> THEN minServer
  ELSE LET server == Head(order)
           serverTraffic == SumSizes(tr[server])
       IN IF minServer = NoServer /\ serverTraffic < minTraffic
            THEN MinScanFirst(Tail(order), tr, serverTraffic, server)
            ELSE MinScanFirst(Tail(order), tr, minTraffic, minServer)

RECURSIVE MinScan(_, _, _, _)
\* the dispatch handler's loop over the ledger: a strict < keeps the first
\* minimum met in iteration order
MinScan(order, tr, minTraffic, minServer) ==
  IF order = <<>> THEN minServer
  ELSE LET server == Head(order)
           serverTraffic == SumSizes(tr[server])
       IN IF serverTraffic < minTraffic
            THEN MinScan(Tail(order), tr, serverTraffic, server)
            ELSE MinScan(Tail(order), tr, minTraffic, minServer)

\* the filter with !timestamp.Before(cutoff): a sample exactly as old as the
\* window survives the pass
KeepFreshInclusive(q, t) == SelectSeq(q, LAMBDA st : st.timestamp >= t - Window)

\* the filter with the comparison inverted: the pass keeps the old samples
KeepFreshInverted(q, t) == SelectSeq(q, LAMBDA st : st.timestamp < t - Window)

\* reduceTraffic's inner loop: keep the samples with timestamp.After(cutoff)
KeepFresh(q, t) == SelectSeq(q, LAMBDA st : st.timestamp > t - Window)

\* health without the err check: only a status other than 200 is unhealthy
HealthOptimistic(outcome) == ~(outcome # 0 /\ outcome # StatusOK)

\* health without its status check: every response is healthy
HealthAnyStatus(outcome) == outcome # 0

\* health(dst): false on a transport error (outcome 0) or a status other than 200
Health(outcome) == outcome # 0 /\ outcome = StatusOK

\* a Lock that does not wait for the owner
CanLockAlways(t) == TRUE

\* mu.Lock() returns only when no task owns the mutex
CanLock(t) == mu = NoOne

\* a forgotten mu.Unlock(): the task keeps the mutex
ReleasedNot(t) == t

\* only the handlers unlock: the sweeper and the monitors keep the mutex
ReleasedByHandlers(t) == IF t[1] = "handler" THEN NoOne ELSE t

\* the owner of mu after task t's mu.Unlock()
Released(t) == NoOne

\* the pcs at which a handler is inside forward
ForwardPcs == {"call", "inc_lock", "inc_write", "relay"}
\* the pcs at which a handler is between mu.Lock() and mu.Unlock()
LockedPcs == {"select", "inc_write"}

\* ------------------------------------------------------------------- Init
\* var timeout = time.Duration(*timeoutSec) * time.Second: a package-level
\* initializer, evaluated before main runs, when the flag still holds its default
PackageTimeout == DefaultTimeoutSec * Second

\* package initialization, then main: flag.Parse stores the command line's
\* -timeout-sec, and every pooled server gets an empty queue
InitWith(pool, t, arg) ==
  /\ serversPool = pool
  /\ timeoutSec = arg
  /\ timeout = PackageTimeout
  /\ traffic = [s \in pool |-> <<>>]
  /\ mu = NoOne
  /\ now = t
  /\ hpc = [h \in Handlers |-> "idle"]
  /\ minTrafficServer = [h \in Handlers |-> NoServer]
  /\ deadline = [h \in Handlers |-> NoDeadline]
  /\ seen = [h \in Handlers |-> [s \in pool |-> 0]]
  /\ resp = [h \in Handlers |-> NoResp]
  /\ queue = [h \in Handlers |-> <<>>]
  /\ status = [h \in Handlers |-> <<>>]
  /\ fwdErr = [h \in Handlers |-> "none"]
  /\ spc = "wait"
  /\ mpc = [s \in pool |-> "wait"]
  /\ probe = [s \in pool |-> 0]
  /\ pdeadline = [s \in pool |-> NoDeadline]
  /\ healthy = [s \in pool |-> FALSE]
  /\ load = [s \in pool |-> 0]
  /\ nreq = 0
  /\ nprobe = 0
  /\ recorded = [s \in pool |-> NoSamples]
  /\ swept = [s \in pool |-> NoSamples]
  /\ served = [s \in pool |-> 0]
  /\ calls = [h \in Handlers |-> 0]
  /\ scans = [h \in Handlers |-> 0]
  /\ appended = [h \in Handlers |-> 0]
  /\ before = [h \in Handlers |-> [s \in pool |-> 0]]
  /\ quiet = [h \in Handlers |-> FALSE]

\* the built-in pool, and the degenerate configuration with no backend
Init == \E pool \in {DefaultPool, {}} : InitWith(pool, 0, DefaultTimeoutSec)

\* ------------------------------------------------------- request handlers
\* the locals of a handler that has returned
ZeroLoads == [s \in serversPool |-> 0]

\* the HTTP server starts a handler for a new inbound request (handler
\* goroutines are interchangeable: the first free slot takes it)
Request(h, limit) ==
  /\ hpc[h] \in {"idle", "done"}
  /\ \A g \in Handlers : hpc[g] \in {"idle", "done"} => h <= g
  /\ nreq < limit
  /\ nreq' = nreq + 1
  /\ hpc' = [hpc EXCEPT ![h] = "lock"]
  /\ resp' = [resp EXCEPT ![h] = NoResp]
  /\ status' = [status EXCEPT ![h] = <<>>]
  /\ fwdErr' = [fwdErr EXCEPT ![h] = "none"]
  /\ calls' = [calls EXCEPT ![h] = 0]
  /\ scans' = [scans EXCEPT ![h] = 0]
  /\ appended' = [appended EXCEPT ![h] = 0]
  /\ UNCHANGED <<config, traffic, mu, now, minTrafficServer, deadline, seen, queue,
                 spc, mvars, gvars, before, quiet>>

\* handler: mu.Lock()
DispatchLock(h) ==
  /\ hpc[h] = "lock"
  /\ CanLock(HandlerTask(h))
  /\ mu' = HandlerTask(h)
  /\ hpc' = [hpc EXCEPT ![h] = "select"]
  /\ UNCHANGED <<config, traffic, now, minTrafficServer, deadline, seen, resp, queue,
                 status, fwdErr, spc, mvars, nreq, gvars, calls, scans, appended, before, quiet>>

\* handler: the scan for the least loaded server, then mu.Unlock()
DispatchSelect(h) ==
  /\ hpc[h] = "select"
  /\ \E order \in Orders(DOMAIN traffic) :
       minTrafficServer' =
         [minTrafficServer EXCEPT ![h] = MinScan(order, traffic, MaxInt, NoServer)]
  /\ seen' = [seen EXCEPT ![h] = Loads(traffic)]
  /\ scans' = [scans EXCEPT ![h] = @ + 1]
  /\ mu' = Released(HandlerTask(h))
  /\ hpc' = [hpc EXCEPT ![h] = "check"]
  /\ UNCHANGED <<config, traffic, now, deadline, resp, queue, status, fwdErr, spc,
                 mvars, nreq, gvars, calls, appended, before, quiet>>

\* the handler without its empty-selection check
NoneSelectedNever(server) == FALSE

\* if minTrafficServer == "" { ... }
NoneSelected(server) == server = NoServer

\* handler: 503 when nothing was selected, else enter forward, derive ctx
\* with the timeout and send the request to the backend
DispatchCheck(h) ==
  /\ hpc[h] = "check"
  /\ IF NoneSelected(minTrafficServer[h])
       THEN /\ status' = [status EXCEPT ![h] = Append(@, StatusServiceUnavailable)]
            /\ hpc' = [hpc EXCEPT ![h] = "done"]
            /\ UNCHANGED <<calls, deadline, before, quiet>>
       ELSE /\ hpc' = [hpc EXCEPT ![h] = "call"]
            /\ deadline' = [deadline EXCEPT ![h] = now + timeout]
            /\ calls' = [calls EXCEPT ![h] = @ + 1]
            /\ before' = [before EXCEPT ![h] = Loads(traffic)]
            /\ quiet' = [g \in Handlers |->
                           IF g = h THEN \A k \in Handlers \ {h} : hpc[k] \notin ForwardPcs
                           ELSE FALSE]
            /\ UNCHANGED status
  /\ seen' = [seen EXCEPT ![h] = ZeroLoads]
  /\ UNCHANGED <<config, traffic, mu, now, minTrafficServer, resp, queue, fwdErr,
                 spc, mvars, nreq, gvars, scans, appended>>

\* the two failure statuses swapped
EarlyStatusSwapped(kind) ==
  IF kind = "err" THEN StatusInternalServerError ELSE StatusServiceUnavailable

\* the status forward writes when it returns an error: 503 when the call
\* failed, 500 when the body could not be read
EarlyStatus(kind) ==
  IF kind = "err" THEN StatusServiceUnavailable ELSE StatusInternalServerError

\* forward without its err check: every outcome takes the success path
CallSucceededAlways(o) == TRUE

\* forward: if err == nil, and the body was read
CallSucceeded(o) == o.kind = "ok"

\* forward with rw.WriteHeader moved before incrementTraffic
ForwardCallEarlyHeader(h, outcomes) ==
  /\ hpc[h] = "call"
  /\ \E o \in outcomes :
       /\ now >= deadline[h] => ~CallSucceeded(o)
       /\ resp' = [resp EXCEPT ![h] = o]
       /\ deadline' = [deadline EXCEPT ![h] = NoDeadline]
       /\ status' = [status EXCEPT ![h] =
                       Append(@, IF CallSucceeded(o) THEN o.code ELSE EarlyStatus(o.kind))]
       /\ IF CallSucceeded(o)
            THEN /\ hpc' = [hpc EXCEPT ![h] = "inc_lock"]
                 /\ UNCHANGED <<fwdErr, minTrafficServer, before, quiet>>
            ELSE /\ fwdErr' = [fwdErr EXCEPT ![h] = "err"]
                 /\ hpc' = [hpc EXCEPT ![h] = "done"]
                 /\ minTrafficServer' = [minTrafficServer EXCEPT ![h] = NoServer]
                 /\ before' = [before EXCEPT ![h] = ZeroLoads]
                 /\ quiet' = [quiet EXCEPT ![h] = FALSE]
  /\ UNCHANGED <<config, traffic, mu, now, seen, queue, spc, mvars,
                 nreq, gvars, calls, scans, appended>>

\* a handler that retries: after a failed call it goes back to the selection
ForwardCallRetry(h, outcomes) ==
  /\ hpc[h] = "call"
  /\ \E o \in outcomes :
       /\ now >= deadline[h] => ~CallSucceeded(o)
       /\ resp' = [resp EXCEPT ![h] = o]
       /\ deadline' = [deadline EXCEPT ![h] = NoDeadline]
       /\ hpc' = [hpc EXCEPT ![h] = IF CallSucceeded(o) THEN "inc_lock" ELSE "lock"]
  /\ UNCHANGED <<config, traffic, mu, now, seen, queue, spc, mvars, nreq, gvars, calls, scans,
                 appended, status, fwdErr, minTrafficServer, before, quiet>>

\* forward: http.DefaultClient.Do returns, then io.ReadAll; once ctx has
\* expired the call or the read fails
ForwardCall(h, outcomes) ==
  /\ hpc[h] = "call"
  /\ \E o \in outcomes :
       /\ now >= deadline[h] => ~CallSucceeded(o)
       /\ resp' = [resp EXCEPT ![h] = o]
       /\ deadline' = [deadline EXCEPT ![h] = NoDeadline]
       /\ IF CallSucceeded(o)
            THEN /\ hpc' = [hpc EXCEPT ![h] = "inc_lock"]
                 /\ UNCHANGED <<status, fwdErr, minTrafficServer, before, quiet>>
            ELSE /\ status' = [status EXCEPT ![h] = Append(@, EarlyStatus(o.kind))]
                 /\ fwdErr' = [fwdErr EXCEPT ![h] = "err"]
                 /\ hpc' = [hpc EXCEPT ![h] = "done"]
                 /\ minTrafficServer' = [minTrafficServer EXCEPT ![h] = NoServer]
                 /\ before' = [before EXCEPT ![h] = ZeroLoads]
                 /\ quiet' = [quiet EXCEPT ![h] = FALSE]
  /\ UNCHANGED <<config, traffic, mu, now, seen, queue, spc, mvars,
                 nreq, gvars, calls, scans, appended>>

\* incrementTraffic: mu.Lock(), then append reads traffic[dst]
IncLock(h) ==
  /\ hpc[h] = "inc_lock"
  /\ CanLock(HandlerTask(h))
  /\ mu' = HandlerTask(h)
  /\ queue' = [queue EXCEPT ![h] = QueueOf(traffic, minTrafficServer[h])]
  /\ hpc' = [hpc EXCEPT ![h] = "inc_write"]
  /\ UNCHANGED <<config, traffic, now, minTrafficServer, deadline, seen, resp, status,
                 fwdErr, spc, mvars, nreq, gvars, calls, scans, appended, before, quiet>>

\* a ledger that counts requests instead of bytes
AppendedCount(q, size, t) == Append(q, [size |-> 1, timestamp |-> t])

\* the queue incrementTraffic stores back
Appended(q, size, t) == Append(q, [size |-> size, timestamp |-> t])

\* incrementTraffic: traffic[dst] = append(...), the log line, mu.Unlock()
IncWrite(h) ==
  LET dst == minTrafficServer[h]
  IN /\ hpc[h] = "inc_write"
     /\ traffic' = [s \in DOMAIN traffic \cup {dst} |->
                      IF s = dst THEN Appended(queue[h], resp[h].size, now) ELSE traffic[s]]
     /\ recorded' = [s \in DOMAIN recorded \cup {dst} |->
                       IF s = dst
                         THEN [n |-> TallyOf(recorded, dst).n + 1,
                               bytes |-> TallyOf(recorded, dst).bytes + resp[h].size]
                         ELSE recorded[s]]
     /\ appended' = [appended EXCEPT ![h] = @ + 1]
     /\ queue' = [queue EXCEPT ![h] = <<>>]
     /\ mu' = Released(HandlerTask(h))
     /\ hpc' = [hpc EXCEPT ![h] = "relay"]
     /\ UNCHANGED <<config, now, minTrafficServer, deadline, seen, resp, status, fwdErr,
                    spc, mvars, nreq, swept, served, calls, scans, before, quiet>>

\* forward: copy the headers, rw.WriteHeader(resp.StatusCode), rw.Write(body)
\* (a failed write is only logged), return nil
ForwardRelay(h, writeOks) ==
  LET dst == minTrafficServer[h]
  IN /\ hpc[h] = "relay"
     /\ status' = [status EXCEPT ![h] = Append(@, resp[h].code)]
     /\ \E ok \in writeOks :
          served' = [s \in DOMAIN served \cup {dst} |->
                       IF s = dst /\ ok THEN CountOf(served, dst) + resp[h].size
                       ELSE CountOf(served, s)]
     /\ fwdErr' = [fwdErr EXCEPT ![h] = "nil"]
     /\ hpc' = [hpc EXCEPT ![h] = "done"]
     /\ minTrafficServer' = [minTrafficServer EXCEPT ![h] = NoServer]
     /\ before' = [before EXCEPT ![h] = ZeroLoads]
     /\ quiet' = [quiet EXCEPT ![h] = FALSE]
     /\ UNCHANGED <<config, traffic, mu, now, deadline, seen, resp, queue, spc,
                    mvars, nreq, recorded, swept, calls, scans, appended>>

\* --------------------------------------------------------------- sweeper
\* a pass that deletes the entry of a server left without samples
SweepLedgerDropEmpty(tr, t) ==
  [s \in {r \in DOMAIN tr : KeepFresh(tr[r], t) # <<>>} |-> KeepFresh(tr[s], t)]

\* one pass of reduceTraffic over the whole ledger at time t
SweepLedger(tr, t) == [s \in DOMAIN tr |-> KeepFresh(tr[s], t)]

\* reduceTraffic: a tick arrived on ticker.C, mu.Lock()
SweepLock ==
  /\ spc = "due"
  /\ CanLock(SweeperTask)
  /\ mu' = SweeperTask
  /\ spc' = "sweep"
  /\ UNCHANGED <<config, traffic, now, hvars, mvars, nreq, gvars>>

\* reduceTraffic: the loop over the ledger, mu.Unlock()
SweepPass ==
  /\ spc = "sweep"
  /\ traffic' = SweepLedger(traffic, now)
  /\ swept' = [s \in DOMAIN swept |->
                 [n |-> swept[s].n + Len(QueueOf(traffic, s)) - Len(QueueOf(traffic', s)),
                  bytes |-> swept[s].bytes + LoadIn(traffic, s) - LoadIn(traffic', s)]]
  /\ quiet' = [h \in Handlers |-> IF hpc[h] \in ForwardPcs THEN FALSE ELSE quiet[h]]
  /\ mu' = Released(SweeperTask)
  /\ spc' = "wait"
  /\ UNCHANGED <<config, now, hpc, minTrafficServer, deadline, seen, resp, queue,
                 status, fwdErr, mvars, nreq, recorded, served, calls, scans, appended, before>>

\* ----------------------------------------------------------------- clock
\* the pcs at which a handler waits for the network: for an inbound request
\* or for the backend's response
WaitingPcs == {"idle", "call", "done"}

\* half a second passes, while every task waits for its ticker or for the
\* network (in-memory steps take no time) and no outbound call has reached
\* the deadline of its ctx; the tickers of the sweeper and of the monitors
\* fire on their periods (a monitor still busy with its last cycle misses the
\* tick), and a monitor whose tick fired enters health and derives its ctx
Tick(maxTime) ==
  /\ now < maxTime
  /\ spc = "wait"
  /\ \A h \in Handlers : hpc[h] \in WaitingPcs /\ (hpc[h] = "call" => now < deadline[h])
  /\ \A s \in DOMAIN mpc :
       mpc[s] \in {"wait", "probe"} /\ (mpc[s] = "probe" => now < pdeadline[s])
  /\ now' = now + 1
  /\ spc' = IF now' % SweepInterval = 0 THEN "due" ELSE "wait"
  /\ mpc' = [s \in DOMAIN mpc |->
               IF now' % HealthInterval = 0 /\ mpc[s] = "wait" THEN "probe" ELSE mpc[s]]
  /\ pdeadline' = [s \in DOMAIN mpc |->
                     IF now' % HealthInterval = 0 /\ mpc[s] = "wait"
                       THEN now' + timeout ELSE pdeadline[s]]
  /\ UNCHANGED <<config, traffic, mu, hvars, probe, healthy, load, nprobe, nreq, gvars>>

\* -------------------------------------------------------- health monitors
\* monitor: health(server) returns, no lock held
HealthProbe(s, limit) ==
  /\ s \in serversPool
  /\ mpc[s] = "probe"
  /\ nprobe < limit
  /\ nprobe' = nprobe + 1
  /\ \E outcome \in ProbeOutcomes :
       /\ now >= pdeadline[s] => outcome = 0
       /\ probe' = [probe EXCEPT ![s] = outcome]
       /\ healthy' = [healthy EXCEPT ![s] = Health(outcome)]
  /\ pdeadline' = [pdeadline EXCEPT ![s] = NoDeadline]
  /\ mpc' = [mpc EXCEPT ![s] = "lock"]
  /\ UNCHANGED <<config, traffic, mu, now, hvars, spc, load, nreq, gvars>>

\* monitor: mu.Lock()
MonitorLock(s) ==
  /\ s \in serversPool
  /\ mpc[s] = "lock"
  /\ CanLock(MonitorTask(s))
  /\ mu' = MonitorTask(s)
  /\ mpc' = [mpc EXCEPT ![s] = "read"]
  /\ UNCHANGED <<config, traffic, now, hvars, spc, probe, pdeadline, healthy, load,
                 nprobe, nreq, gvars>>

\* monitor: sum traffic[server], mu.Unlock(), log
MonitorRead(s) ==
  /\ s \in serversPool
  /\ mpc[s] = "read"
  /\ load' = [load EXCEPT ![s] = SumSizes(QueueOf(traffic, s))]
  /\ mu' = Released(MonitorTask(s))
  /\ mpc' = [mpc EXCEPT ![s] = "wait"]
  /\ probe' = [probe EXCEPT ![s] = 0]
  /\ UNCHANGED <<config, traffic, now, hvars, spc, pdeadline, healthy, nprobe, nreq,
                 gvars>>

\* ------------------------------------------------------------------ Spec
Serve(outcomes, writeOks) ==
  \E h \in Handlers :
    \/ DispatchLock(h)
    \/ DispatchSelect(h)
    \/ DispatchCheck(h)
    \/ ForwardCall(h, outcomes)
    \/ IncLock(h)
    \/ IncWrite(h)
    \/ ForwardRelay(h, writeOks)

SweeperStep == SweepLock \/ SweepPass

MonitorStep(limit) ==
  \E s \in DefaultPool :
    \/ HealthProbe(s, limit)
    \/ MonitorLock(s)
    \/ MonitorRead(s)

\* request handlers and the sweeper, from process start
Next ==
  \/ \E h \in Handlers : Request(h, MaxRequests)
  \/ Serve(CallOutcomes, {TRUE})
  \/ SweeperStep
  \/ Tick(MaxTime)

Spec == Init /\ [][Next]_vars

\* the whole process around the first tick of the health monitors, after it
\* has idled since its start
InitHealth == InitWith(DefaultPool, HealthInterval - 1, DefaultTimeoutSec)

NextHealth ==
  \/ \E h \in Handlers : Request(h, MaxRequests)
  \/ Serve(CallOutcomes, {TRUE})
  \/ SweeperStep
  \/ Tick(HealthInterval + MaxHealthTime)
  \/ MonitorStep(MaxProbes)

SpecHealth == InitHealth /\ [][NextHealth]_vars

\* the whole process started with any -timeout-sec, around the first tick of
\* the health monitors, with callers that may hang up before the response is
\* written
InitTimeout == \E arg \in TimeoutArgs : InitWith(DefaultPool, HealthInterval - 1, arg)

NextTimeout ==
  \/ \E h \in Handlers : Request(h, MaxTimedRequests)
  \/ Serve(CallOutcomes, BOOLEAN)
  \/ SweeperStep
  \/ Tick(HealthInterval + MaxHealthTime)
  \/ MonitorStep(MaxProbes)

SpecTimeout == InitTimeout /\ [][NextTimeout]_vars

\* The goroutine scheduler runs every runnable goroutine, every outbound call
\* returns or reaches the deadline of its ctx, and sync.Mutex hands the lock to
\* a goroutine that keeps waiting for it (starvation mode): weak fairness for
\* the steps no other task can disable, strong fairness for mu.Lock().
Fairness ==
  /\ \A h \in Handlers :
       /\ SF_vars(DispatchLock(h))
       /\ WF_vars(DispatchSelect(h))
       /\ WF_vars(DispatchCheck(h))
       /\ WF_vars(ForwardCall(h, CallOutcomes))
       /\ SF_vars(IncLock(h))
       /\ WF_vars(IncWrite(h))
       /\ WF_vars(ForwardRelay(h, BOOLEAN))
  /\ SF_vars(SweepLock)
  /\ WF_vars(SweepPass)
  /\ \A s \in DefaultPool :
       /\ WF_vars(HealthProbe(s, MaxProbes))
       /\ SF_vars(MonitorLock(s))
       /\ WF_vars(MonitorRead(s))

\* the whole process around the first tick of the health monitors, under
\* fair scheduling
SpecLive == InitHealth /\ [][NextTimeout]_vars /\ Fairness

\* backends that answer 200 with an empty body or with one byte
BodyOutcomes ==
  {[kind |-> "ok", code |-> 200, size |-> 0],
   [kind |-> "ok", code |-> 200, size |-> 1]}

\* request handlers and the sweeper, from process start, with such backends
NextExpiry ==
  \/ \E h \in Handlers : Request(h, MaxRequests)
  \/ Serve(BodyOutcomes, {TRUE})
  \/ SweeperStep
  \/ Tick(MaxTime)

SpecExpiry == InitWith(DefaultPool, 0, DefaultTimeoutSec) /\ [][NextExpiry]_vars

\* ------------------------------------------------- the integration test
\* every mock backend answers 200 with the same body
FairOutcomes == {[kind |-> "ok", code |-> 200, size |-> 1]}

\* the test client sends a request only after the previous response
SequentialClient == \A h \in Handlers : hpc[h] \in {"idle", "done"}

\* a pause long enough for every recorded sample to leave the window
IdleGap == Window + SweepInterval

\* The client pauses for IdleGap after a response: the clock advances and the
\* sweeper's passes of that period run; the last of them, at the new instant,
\* leaves what all of them together leave.  The client paces itself so after
\* each of its first requests only, then sends the rest back to back.
ClientIdle(limit) ==
  /\ SequentialClient
  /\ mu = NoOne /\ spc = "wait"
  /\ nreq \in 1..limit
  /\ now = IdleGap * (nreq - 1)
  /\ now' = now + IdleGap
  /\ traffic' = SweepLedger(traffic, now')
  /\ swept' = [s \in DOMAIN swept |->
                 [n |-> swept[s].n + Len(QueueOf(traffic, s)) - Len(QueueOf(traffic', s)),
                  bytes |-> swept[s].bytes + LoadIn(traffic, s) - LoadIn(traffic', s)]]
  /\ UNCHANGED <<config, mu, hvars, spc, mvars, nreq, recorded, served>>

InitFair == InitWith(DefaultPool, 0, DefaultTimeoutSec)

NextFair ==
  \/ \E h \in Handlers : SequentialClient /\ Request(h, NumRequests)
  \/ Serve(FairOutcomes, {TRUE})
  \/ ClientIdle(MaxIdle)

SpecFair == InitFair /\ [][NextFair]_vars

\* ================================================================ claims
LoadOf(s) == SumSizes(QueueOf(traffic, s))

\* C1: when a handler has finished its scan under the lock, the server it
\* selected is a key of the ledger whose summed size, as the scan read it, is
\* <= the summed size of every server in the ledger at that snapshot.
C1_LeastLoadSelected ==
  \A h \in Handlers :
    (hpc[h] = "check" /\ minTrafficServer[h] # NoServer)
      => /\ minTrafficServer[h] \in DOMAIN seen[h]
         /\ \A s \in DOMAIN seen[h] : seen[h][minTrafficServer[h]] <= seen[h][s]

\* a handler has just selected a server while another server carried more
C1_Witness ==
  \E h \in Handlers :
    /\ hpc[h] = "check"
    /\ minTrafficServer[h] \in DOMAIN seen[h]
    /\ \E s \in DOMAIN seen[h] : seen[h][s] > seen[h][minTrafficServer[h]]

\* the samples of q that are younger than the window at time t
Young(q, t) == SelectSeq(q, LAMBDA st : t < st.timestamp + Window)

\* q is an initial part of r
IsPrefix(q, r) == Len(q) <= Len(r) /\ q = SubSeq(r, 1, Len(q))

\* C2: under every interleaving of forwards and sweep passes, a step changes
\* a server's queue only by appending the one sample of the incrementTraffic
\* that owns mu, or, in a sweep pass, by removing samples at least as old as
\* the window and nothing else; so each queue holds the samples appended and
\* not yet swept, and its sum is their summed size and never negative.
C2_NoLostUpdate ==
  /\ [][\A s \in DOMAIN traffic' :
          \/ QueueOf(traffic', s) = QueueOf(traffic, s)
          \/ \E h \in Handlers :
               /\ hpc[h] = "inc_write" /\ hpc'[h] = "relay" /\ s = minTrafficServer[h]
               /\ traffic'[s] =
                    Append(QueueOf(traffic, s), [size |-> resp[h].size, timestamp |-> now])
          \/ /\ spc = "sweep" /\ spc' = "wait"
             /\ traffic'[s] = Young(traffic[s], now)]_vars
  /\ [](\A s \in DOMAIN traffic :
          /\ Len(traffic[s]) = TallyOf(recorded, s).n - TallyOf(swept, s).n
          /\ LoadOf(s) = TallyOf(recorded, s).bytes - TallyOf(swept, s).bytes
          /\ LoadOf(s) >= 0)

\* a server holds a live sample after a sweep pass removed an older one of
\* its samples, both appended by forwards of this run
C2_Witness ==
  \E s \in DOMAIN traffic :
    swept[s].n > 0 /\ traffic[s] # <<>> /\ recorded[s].n = MaxRequests

C4_RecordOnSuccess ==
  \A h \in Handlers :
    (hpc[h] = "relay" /\ quiet[h])
      => Loads(traffic) =
           [s \in DOMAIN before[h] |->
              before[h][s] + IF s = minTrafficServer[h] THEN resp[h].size ELSE 0]

\* an undisturbed forward has recorded a body of two bytes
C4_Witness ==
  \E h \in Handlers : hpc[h] = "relay" /\ quiet[h] /\ resp[h].size = 2

\* C5: a handler whose backend call failed at the transport layer has, when
\* it returns, written the single status 503, got the error back from forward
\* and appended no sample to any queue.
C5_NoRecordOnFailure ==
  \A h \in Handlers :
    (hpc[h] = "done" /\ resp[h].kind = "err")
      => /\ status[h] = <<StatusServiceUnavailable>>
         /\ fwdErr[h] = "err"
         /\ calls[h] = 1
         /\ appended[h] = 0

\* a failed call has returned while the ledger holds another request's sample
C5_Witness ==
  \E h \in Handlers :
    /\ hpc[h] = "done" /\ resp[h].kind = "err"
    /\ \E s \in DOMAIN traffic : traffic[s] # <<>>

\* C6: with no entry in the ledger a handler never enters forward, and it
\* ends with the single status 503, no outbound call and no sample.
C6_EmptyPool ==
  DOMAIN traffic = {} =>
    \A h \in Handlers :
      /\ hpc[h] \notin ForwardPcs
      /\ calls[h] = 0 /\ appended[h] = 0
      /\ hpc[h] = "done" => status[h] = <<StatusServiceUnavailable>>

\* both requests of the run were answered with an empty ledger
C6_Witness ==
  /\ DOMAIN traffic = {}
  /\ nreq = MaxRequests
  /\ \A h \in Handlers : hpc[h] = "done"

RECURSIVE SumOver(_, _)
\* the sum of f over the set S
SumOver(f, S) ==
  IF S = {} THEN 0 ELSE LET x == CHOOSE y \in S : TRUE IN f[x] + SumOver(f, S \ {x})

Abs(x) == IF x < 0 THEN -x ELSE x

\* every server's served bytes are within TolerancePct percent of the mean
WithinTolerance ==
  LET total == SumOver(served, DOMAIN served)
      n == Cardinality(DOMAIN served)
  IN \A s \in DOMAIN served : 100 * Abs(n * served[s] - total) <= TolerancePct * total

\* the test's 100 requests have all been answered
RunComplete == nreq = NumRequests /\ SequentialClient

\* C7 as stated: after 100 sequential requests with equal bodies, every
\* server's served bytes are within 10% of the mean, whatever the tie-breaks
\* and the timing of the sweep passes.
C7_FairUnderVolume == RunComplete => WithinTolerance

\* C7 as amended: the same, for the runs in which no sweep pass has removed a
\* sample before the last response.
C7_FairWithoutEviction ==
  (RunComplete /\ \A s \in DOMAIN swept : swept[s].n = 0) => WithinTolerance

\* a complete run without eviction in which the servers did not serve the same
C7_Witness ==
  /\ RunComplete
  /\ \A s \in DOMAIN swept : swept[s].n = 0
  /\ \E s, r \in DOMAIN served : served[s] > served[r]

\* C8: a probe that ends in a transport error makes health return false, a
\* definite boolean, and the probe leaves the ledger untouched.
C8_UnreachableUnhealthy ==
  [][\A s \in DOMAIN mpc :
       (mpc[s] = "probe" /\ mpc'[s] # "probe")
         => /\ healthy'[s] \in BOOLEAN
            /\ probe'[s] = 0 => healthy'[s] = FALSE
            /\ traffic' = traffic]_vars

\* a probe has failed at the transport layer while the ledger holds a sample
C8_Witness ==
  \E s \in DOMAIN mpc :
    /\ mpc[s] = "lock" /\ probe[s] = 0 /\ ~healthy[s]
    /\ \E r \in DOMAIN traffic : traffic[r] # <<>>

\* the tasks between mu.Lock() and mu.Unlock()
InCritical ==
  {HandlerTask(h) : h \in {g \in Handlers : hpc[g] \in LockedPcs}}
  \cup (IF spc = "sweep" THEN {SweeperTask} ELSE {})
  \cup {MonitorTask(s) : s \in {r \in DOMAIN mpc : mpc[r] = "read"}}

\* the tasks with an outbound network call in progress
InNetworkCall ==
  {HandlerTask(h) : h \in {g \in Handlers : hpc[g] = "call"}}
  \cup {MonitorTask(s) : s \in {r \in DOMAIN mpc : mpc[r] = "probe"}}

\* C9: a task is at a ledger access only as the owner of mu, at most one
\* task is inside a critical section, and the owner of mu has no outbound
\* call in progress.
C9_LockDiscipline ==
  /\ \A t \in InCritical : mu = t
  /\ Cardinality(InCritical) <= 1
  /\ mu \notin InNetworkCall

\* a monitor owns mu while a handler and the sweeper wait for it and another
\* handler's backend call is in progress
C9_Witness ==
  /\ \E s \in DOMAIN mpc : mpc[s] = "read" /\ mu = MonitorTask(s)
  /\ spc = "due"
  /\ \E h, g \in Handlers : hpc[h] \in {"lock", "inc_lock"} /\ hpc[g] = "call"

\* the status a finished request must have got
ExpectedStatus(h) ==
  IF calls[h] = 0 THEN StatusServiceUnavailable
  ELSE IF resp[h].kind = "ok" THEN resp[h].code
  ELSE IF resp[h].kind = "err" THEN StatusServiceUnavailable
  ELSE StatusInternalServerError

\* C10: a request never gets a second status line, and when the handler
\* returns it has got exactly one: the backend's code after a successful call
\* and read, 503 when nothing was selected or the call failed, 500 when the
\* body could not be read.
C10_CallerStatus ==
  \A h \in Handlers :
    /\ Len(status[h]) <= 1
    /\ hpc[h] = "done" => status[h] = <<ExpectedStatus(h)>>
    /\ hpc[h] \notin {"idle", "done"} => status[h] = <<>>

\* one request relayed the backend's 404, the other got 500 for an unread body
C10_Witness ==
  \E h, g \in Handlers :
    /\ hpc[h] = "done" /\ resp[h].kind = "ok" /\ status[h] = <<404>>
    /\ hpc[g] = "done" /\ resp[g].kind = "readfail"
    /\ status[g] = <<StatusInternalServerError>>

\* C11: every forwarded backend call and every health probe in progress
\* expires no later than the configured timeout-sec after now: the timeout
\* applied to both is the configured value.
C11_ConfiguredTimeout ==
  /\ \A h \in Handlers :
       hpc[h] = "call" => deadline[h] <= now + timeoutSec * Second
  /\ \A s \in DOMAIN mpc :
       mpc[s] = "probe" => pdeadline[s] <= now + timeoutSec * Second

\* the monitors whose call of health has returned in the current cycle
Probed == {s \in DOMAIN mpc : mpc[s] \in {"lock", "read"}}

\* C12 as stated: health returns true if and only if the probe completed
\* without transport error or timeout and the status is in the class 2xx.
C12_HealthySuccessClass ==
  \A s \in Probed : healthy[s] <=> (probe[s] # 0 /\ probe[s] \in 200..299)

\* C12 as amended: health returns true if and only if the probe completed
\* without transport error or timeout and the status is exactly 200.
C12_HealthyOnly200 ==
  \A s \in Probed : healthy[s] <=> (probe[s] # 0 /\ probe[s] = StatusOK)

\* a backend that answered the probe with 204 was reported unhealthy
C12_Witness ==
  \E s \in Probed : probe[s] = 204 /\ ~healthy[s]

\* the keys of the ledger whose summed size is least
LeastLoaded(tr) ==
  {s \in DOMAIN tr : \A r \in DOMAIN tr : SumSizes(tr[s]) <= SumSizes(tr[r])}

\* C13: no step that moves a health monitor or changes what it reports
\* changes the ledger; and whatever the monitors have reported, a scan may
\* select exactly the least loaded keys of the ledger and does select one of
\* them, so a backend reported unhealthy is never excluded.
C13_HealthInformational ==
  /\ [][(mpc' # mpc \/ healthy' # healthy \/ probe' # probe \/ load' # load)
         => traffic' = traffic]_vars
  /\ [][\A h \in Handlers :
          (hpc[h] = "select" /\ hpc'[h] = "check")
            => /\ {MinScan(o, traffic, MaxInt, NoServer) : o \in Orders(DOMAIN traffic)}
                    = LeastLoaded(traffic)
               /\ minTrafficServer'[h] \in LeastLoaded(traffic)]_vars

\* a handler has selected a backend whose probe has just failed
C13_Witness ==
  \E h \in Handlers : \E s \in Probed :
    /\ hpc[h] = "check" /\ minTrafficServer[h] = s
    /\ probe[s] = 0 /\ ~healthy[s]
    /\ \E r \in DOMAIN traffic : traffic[r] # <<>>

\* C14: in every reachable state the ledger's key set is exactly the
\* configured pool, and every entry is a (possibly empty) sequence of samples.
C14_StaticLedgerKeys ==
  /\ DOMAIN traffic = serversPool
  /\ \A s \in serversPool : \A i \in 1..Len(traffic[s]) :
       DOMAIN traffic[s][i] = {"size", "timestamp"}

\* after forwards, sweep passes and a health check, one pool backend has an
\* empty entry and another holds a sample
C14_Witness ==
  /\ serversPool = DefaultPool
  /\ now = HealthInterval + MaxHealthTime /\ nprobe = MaxProbes
  /\ \A s \in DOMAIN mpc : mpc[s] \in {"wait", "probe"}
  /\ \A h \in Handlers : hpc[h] = "done" /\ appended[h] = 1
  /\ \E s, r \in DOMAIN traffic : traffic[s] = <<>> /\ traffic[r] # <<>>

RECURSIVE DropOld(_, _)
\* q without its samples recorded at or before the cutoff, order kept
DropOld(q, cutoff) ==
  IF q = <<>> THEN <<>>
  ELSE IF Head(q).timestamp <= cutoff
         THEN DropOld(Tail(q), cutoff)
         ELSE <<Head(q)>> \o DropOld(Tail(q), cutoff)

\* C15: a sweep pass at time now leaves, for every backend, exactly the
\* samples with timestamp > now - 5 s in their original order, removes
\* exactly those with timestamp <= now - 5 s, and so every sample retained
\* right after the pass is younger than the window.
C15_SweepPassResult ==
  [][(spc = "sweep" /\ spc' = "wait")
       => /\ DOMAIN traffic' = DOMAIN traffic
          /\ \A s \in DOMAIN traffic :
               /\ traffic'[s] = DropOld(traffic[s], now - Window)
               /\ Len(traffic[s]) - Len(traffic'[s]) =
                    Cardinality({i \in 1..Len(traffic[s]) :
                                   traffic[s][i].timestamp <= now - Window})
               /\ \A i \in 1..Len(traffic'[s]) :
                    now - traffic'[s][i].timestamp < Window]_vars

\* a pass has just removed one sample of a backend and retained its other
\* sample, half a second younger than the cutoff
C15_Witness ==
  /\ spc = "wait" /\ now % SweepInterval = 0
  /\ \E s \in DOMAIN traffic :
       /\ swept[s].n = 1 /\ Len(traffic[s]) = 1
       /\ traffic[s][1].timestamp = now - Window + 1

\* C16: a request scans the ledger once, before its call, makes at most one
\* outbound call and appends at most one sample; once its call has returned,
\* failed or not, the handler is past selection and call for good, and after
\* a failure it ends with nothing appended.
C16_SingleAttempt ==
  \A h \in Handlers :
    /\ scans[h] <= 1 /\ calls[h] <= scans[h] /\ appended[h] <= calls[h]
    /\ hpc[h] \in {"check", "call", "inc_lock", "inc_write", "relay", "done"}
         => scans[h] = 1
    /\ hpc[h] \in {"lock", "select", "check"} => (calls[h] = 0 /\ resp[h] = NoResp)
    /\ resp[h].kind # "none" => hpc[h] \in {"inc_lock", "inc_write", "relay", "done"}
    /\ resp[h].kind \in {"err", "readfail"} => (hpc[h] = "done" /\ appended[h] = 0)

\* a request whose call failed has ended after its one call, while the other
\* request's one call was recorded
C16_Witness ==
  \E h, g \in Handlers :
    /\ hpc[h] = "done" /\ resp[h].kind = "err" /\ appended[h] = 0
    /\ hpc[g] = "done" /\ resp[g].kind = "ok" /\ appended[g] = 1
    /\ scans[h] = 1 /\ calls[h] = 1 /\ scans[g] = 1 /\ calls[g] = 1

\* C17: a sample is appended only for a call that completed and whose body
\* was read, nothing is written to the caller before the append, the status
\* of a successful call is written only once the sample is in the ledger, no
\* more bytes have been relayed than recorded, and a successful call has
\* recorded exactly one sample when the handler returns, whether or not the
\* write to the caller succeeded.
C17_RecordBeforeRelay ==
  /\ \A h \in Handlers :
       /\ appended[h] > 0 => resp[h].kind = "ok"
       /\ hpc[h] \in {"call", "inc_lock", "inc_write"} => (status[h] = <<>> /\ appended[h] = 0)
       /\ (resp[h].kind = "ok" /\ status[h] # <<>>) => appended[h] = 1
       /\ (resp[h].kind = "ok" /\ hpc[h] \in {"relay", "done"}) => appended[h] = 1
  /\ \A s \in DOMAIN served : served[s] <= TallyOf(recorded, s).bytes

\* a successful call was recorded and its status written, but the write of
\* the body to the caller failed
C17_Witness ==
  \E h \in Handlers :
    /\ hpc[h] = "done" /\ resp[h].kind = "ok" /\ appended[h] = 1
    /\ status[h] = <<resp[h].code>>
    /\ \A g \in Handlers : hpc[g] \in {"idle", "done"}
    /\ \E s \in DOMAIN served : served[s] = 0 /\ recorded[s].bytes = resp[h].size

\* the only sample in the ledger is one sample of s, as old as the window
\* or older
ExpiredOnly(s) ==
  /\ s \in DOMAIN traffic
  /\ Len(traffic[s]) = 1
  /\ traffic[s][1].timestamp <= now - Window
  /\ \A r \in DOMAIN traffic \ {s} : traffic[r] = <<>>

\* C18 as stated: a scan of a ledger whose only sample is an expired sample
\* of s does not select s.
C18_ExpiredNotSelected ==
  [][\A h \in Handlers : \A s \in DOMAIN traffic :
       (hpc[h] = "select" /\ hpc'[h] = "check" /\ ExpiredOnly(s))
         => minTrafficServer'[h] # s]_vars

\* C18 as amended: the same, when the expired sample has a positive size: it
\* still counts in the load of s until a sweep pass removes it.
C18_ExpiredStillCounts ==
  [][\A h \in Handlers : \A s \in DOMAIN traffic :
       (hpc[h] = "select" /\ hpc'[h] = "check" /\ ExpiredOnly(s)
          /\ traffic[s][1].size > 0)
         => (minTrafficServer'[h] # s /\ minTrafficServer'[h] \in DOMAIN traffic)]_vars

\* a handler has scanned a ledger holding one expired sample of one byte and
\* has selected another backend
C18_Witness ==
  \E h \in Handlers : \E s \in DOMAIN traffic :
    /\ hpc[h] = "check" /\ ExpiredOnly(s) /\ traffic[s][1].size = 1
    /\ seen[h][s] = 1
    /\ minTrafficServer[h] \in DOMAIN traffic \ {s}

\* C19: the owner of mu can always take its next step, which releases mu,
\* whatever the other tasks do; a state in which some task is inside a
\* request, a pass or a cycle has a next step; and under fair scheduling every
\* accepted request ends with one status and every due sweep pass runs.
C19_NoStall ==
  /\ [](/\ \A h \in Handlers :
            mu = HandlerTask(h) => ENABLED (DispatchSelect(h) \/ IncWrite(h))
        /\ mu = SweeperTask => ENABLED SweepPass
        /\ \A s \in DOMAIN mpc : mu = MonitorTask(s) => ENABLED MonitorRead(s)
        /\ (\/ \E h \in Handlers : hpc[h] \notin {"idle", "done"}
            \/ spc # "wait"
            \/ \E s \in DOMAIN mpc : mpc[s] \in {"lock", "read"}) => ENABLED NextTimeout)
  /\ \A h \in Handlers :
       (hpc[h] = "lock") ~> (hpc[h] = "done" /\ Len(status[h]) = 1)
  /\ (spc = "due") ~> (spc = "sweep")
  /\ (spc = "due") ~> (spc = "wait" /\ mu # SweeperTask)

\* the sweeper owns mu while a handler waits to record its sample and a
\* monitor waits to read the load
C19_Witness ==
  /\ mu = SweeperTask /\ spc = "sweep"
  /\ \E h \in Handlers : hpc[h] = "inc_lock"
  /\ \E s \in DOMAIN mpc : mpc[s] = "lock"

\* the body size every backend answers with in the sequential run
BodySize == (CHOOSE o \in FairOutcomes : TRUE).size

\* C20: in a sequential run from an empty ledger in which every call returned
\* the same body size and no sweep pass has removed a sample, after every
\* request the largest and the smallest summed load differ by at most that
\* size, whatever the iteration orders of the scans.
C20_BoundedImbalance ==
  (SequentialClient /\ \A s \in DOMAIN swept : swept[s].n = 0)
    => \A s, r \in DOMAIN traffic : LoadOf(s) - LoadOf(r) <= BodySize

\* half of the run is done without eviction, and the loads differ by the
\* body size
C20_Witness ==
  /\ SequentialClient /\ 2 * nreq = NumRequests
  /\ \A s \in DOMAIN swept : swept[s].n = 0
  /\ \E s, r \in DOMAIN traffic : LoadOf(s) - LoadOf(r) = BodySize

====
